---- MODULE Spec2Model ----
(***************************************************************************)
(* A model of the aranet crate (src/src/lib.rs): the connect() discovery   *)
(* and connection sequence, the Aranet4 handle operations (info,           *)
(* measurements, reconnect, disconnect) and the byte-level decoding they   *)
(* perform.  The BLE transport (btleplug) is the environment: every call   *)
(* into it answers nondeterministically within what its API can return.    *)
(*                                                                         *)
(* Strings are sequences of bytes (Rust Strings are UTF-8 byte buffers),   *)
(* an f32 is the pair mant / 2^exp of its binary expansion, a Result is a  *)
(* record [kind |-> "Ok" | "Err" | "Panic", ...].                          *)
(***************************************************************************)
EXTENDS Integers, Sequences, FiniteSets, TLC

VARIABLES
    pc,         \* position of the running call ("idle" between calls)
    op,         \* the public function being executed
    result,     \* what the last finished call returned
    handle,     \* the Aranet4 value connect() returned (device, current_readings)
    connected,  \* transport state: the peripherals whose link is up
    chars,      \* the list characteristics() returned to the running (or last) call
    calls,      \* transport calls issued by the running (or last) call, in order
    idx,        \* info(): position of the for loop in chars
    fields,     \* info(): the six Option<String> locals
    adapters,   \* the adapters the platform lists
    adapter,    \* connect(): the adapter picked (0: none yet)
    device,     \* connect(): the peripheral find_device returned (0: none yet)
    scanning,   \* adapters on which a scan was started
    known,      \* the adapter's current peripheral list
    adv,        \* each peripheral's advertised local name (Option<String>)
    now,        \* seconds elapsed since the select! of connect() started
    fd,         \* find_device(): position inside the polling loop
    snapshot,   \* find_device(): the Vec peripherals() returned for this poll
    fi,         \* find_device(): position of the for loop in snapshot
    wake,       \* find_device(): when the 1-second sleep ends
    seenMatch   \* history: some known peripheral had a matching name during the search

vars == <<pc, op, result, handle, connected, chars, calls, idx, fields,
          adapters, adapter, device, scanning, known, adv, now, fd, snapshot, fi, wake,
          seenMatch>>

handleVars == <<idx, fields>>
searchVars == <<adapters, adapter, device, scanning, known, adv, now, fd, snapshot, fi,
                wake, seenMatch>>

----------------------------------------------------------------------------
(* Bounds of the model *)

\* peripherals in radio range
NumPeripherals == 2
\* measurement payloads of 0..MaxPayloadLen bytes are read
MaxPayloadLen == 14

Peripherals == 1..NumPeripherals

----------------------------------------------------------------------------
(* Constants of the program *)

ADVERTISED_SERVICE == "0000fce0-0000-1000-8000-00805f9b34fb"
CURRENT_READINGS_CHARACTERISTIC == "f0cd3001-95da-4f4b-9ac8-aa55d312af0c"

UUID_MODEL_NUMBER == "00002a24-0000-1000-8000-00805f9b34fb"
UUID_SERIAL_NUMBER == "00002a25-0000-1000-8000-00805f9b34fb"
UUID_FIRMWARE_REVISION == "00002a26-0000-1000-8000-00805f9b34fb"
UUID_HARDWARE_REVISION == "00002a27-0000-1000-8000-00805f9b34fb"
UUID_SOFTWARE_REVISION == "00002a28-0000-1000-8000-00805f9b34fb"
UUID_MANUFACTURER_NAME == "00002a29-0000-1000-8000-00805f9b34fb"

\* "Aranet4" as bytes
NAME_PREFIX == <<65, 114, 97, 110, 101, 116, 52>>

\* tokio::time::sleep(Duration::from_secs(10)) in connect()
SEARCH_TIMEOUT_SECS == 10
\* tokio::time::sleep(Duration::from_secs(1)) in find_device()
POLL_INTERVAL_SECS == 1

----------------------------------------------------------------------------
(* Option and Result values *)

None == [some |-> FALSE]
Some(v) == [some |-> TRUE, v |-> v]

NoResult == [kind |-> "none"]
Ok(v) == [kind |-> "Ok", v |-> v]
Err(variant, arg) == [kind |-> "Err", variant |-> variant, arg |-> arg]
Panic(msg) == [kind |-> "Panic", msg |-> msg]

\* the panics of Result::unwrap on an Err and of Option::unwrap on a None, by call
UnwrapPanic(what) == Panic(<<what, "unwrap on an Err value">>)
UnwrapNonePanic(what) == Panic(<<what, "unwrap on a None value">>)

\* the btleplug::Error values the transport may answer with
TransportErrors == {"NotConnected", "Other"}

----------------------------------------------------------------------------
(* Status: impl From<u8> for Status *)

StatusFrom(value) ==
    CASE value = 1 -> Ok("GREEN")
      [] value = 2 -> Ok("AMBER")
      [] value = 3 -> Ok("RED")
      [] OTHER -> Panic(<<"Status::from", "invalid semaphore value">>)

----------------------------------------------------------------------------
(* f32 arithmetic: u16 as f32 / 20.0 *)

RoundHalfEven(n, d) ==
    LET q == n \div d
        r == n % d
    IN  IF 2 * r < d THEN q
        ELSE IF 2 * r > d THEN q + 1
        ELSE IF q % 2 = 0 THEN q ELSE q + 1

RECURSIVE F32Scale(_, _)
\* the least s with raw * 2^s / 20 >= 2^23: the quotient's 24-bit mantissa scale
F32Scale(raw, s) ==
    IF raw * (2 ^ s) >= 20 * (2 ^ 23) THEN s ELSE F32Scale(raw, s + 1)

\* raw / 20 as a division of integers, then converted to f32
IntDiv20(raw) ==
    IF raw \div 20 = 0 THEN [mant |-> 0, exp |-> 0]
    ELSE LET s == F32Scale(20 * (raw \div 20), 0)
         IN  [mant |-> (raw \div 20) * (2 ^ s), exp |-> s]

\* raw as f32 / 20.0, correctly rounded (round to nearest, ties to even);
\* the value is mant / 2^exp with 2^23 <= mant < 2^24, or 0
F32Div20(raw) ==
    IF raw = 0 THEN [mant |-> 0, exp |-> 0]
    ELSE LET s == F32Scale(raw, 0)
             m == RoundHalfEven(raw * (2 ^ s), 20)
         IN  IF m = 2 ^ 24 THEN [mant |-> 2 ^ 23, exp |-> s - 1]
             ELSE [mant |-> m, exp |-> s]

----------------------------------------------------------------------------
(* byteorder reads on a Cursor<Vec<u8>> *)

\* read_u8 at position pos (0-based): the byte and the new position, or UnexpectedEof
ReadU8(buf, pos) ==
    IF pos + 1 <= Len(buf)
    THEN [ok |-> TRUE, v |-> buf[pos + 1], pos |-> pos + 1]
    ELSE [ok |-> FALSE, v |-> 0, pos |-> pos]

\* a read_u16 that takes the first byte as the high one
ReadU16BE(buf, pos) ==
    IF pos + 2 <= Len(buf)
    THEN [ok |-> TRUE, v |-> 256 * buf[pos + 1] + buf[pos + 2], pos |-> pos + 2]
    ELSE [ok |-> FALSE, v |-> 0, pos |-> pos]

\* a read_u16 that pads a short buffer with zeroes instead of failing
ReadU16LEPadded(buf, pos) ==
    [ok |-> TRUE,
     v |-> (IF pos + 1 <= Len(buf) THEN buf[pos + 1] ELSE 0)
           + 256 * (IF pos + 2 <= Len(buf) THEN buf[pos + 2] ELSE 0),
     pos |-> pos + 2]

\* read_u16::<LittleEndian>
ReadU16LE(buf, pos) ==
    IF pos + 2 <= Len(buf)
    THEN [ok |-> TRUE, v |-> buf[pos + 1] + 256 * buf[pos + 2], pos |-> pos + 2]
    ELSE [ok |-> FALSE, v |-> 0, pos |-> pos]

IoError == Err("IO", "UnexpectedEof")

\* Duration::from_secs(x as u64)
DurationFromSecs(x) == [secs |-> x]

\* the SensorData literal; Status::from runs while it is being built
SensorData(co2, temperature, pressure, humidity, battery, status, interval, since) ==
    LET st == StatusFrom(status)
    IN  IF st.kind = "Panic" THEN st
        ELSE Ok([co2 |-> co2,
                 battery |-> battery,
                 humidity |-> humidity,
                 pressure |-> pressure,
                 temperature |-> temperature,
                 status |-> st.v,
                 interval |-> DurationFromSecs(interval),
                 since_last_update |-> DurationFromSecs(since)])

\* the decoding part of measurements(): the nine reads with `?`, then the record
Decode(payload) ==
    LET co2 == ReadU16LE(payload, 0) IN
    IF ~co2.ok THEN IoError ELSE
    LET temperature == ReadU16LE(payload, co2.pos) IN
    IF ~temperature.ok THEN IoError ELSE
    LET pressure == ReadU16LE(payload, temperature.pos) IN
    IF ~pressure.ok THEN IoError ELSE
    LET humidity == ReadU8(payload, pressure.pos) IN
    IF ~humidity.ok THEN IoError ELSE
    LET battery == ReadU8(payload, humidity.pos) IN
    IF ~battery.ok THEN IoError ELSE
    LET status == ReadU8(payload, battery.pos) IN
    IF ~status.ok THEN IoError ELSE
    LET update_interval == ReadU16LE(payload, status.pos) IN
    IF ~update_interval.ok THEN IoError ELSE
    LET since_last_update == ReadU16LE(payload, update_interval.pos) IN
    IF ~since_last_update.ok THEN IoError ELSE
    SensorData(co2.v, F32Div20(temperature.v), pressure.v \div 10, humidity.v,
               battery.v, status.v, update_interval.v, since_last_update.v)

----------------------------------------------------------------------------
(* String::from_utf8 and trim_end_matches('\0') *)

IsCont(b) == b >= 128 /\ b <= 191

RECURSIVE ValidUtf8(_)
\* the well-formed byte sequences of UTF-8, as core::str::from_utf8 accepts them
ValidUtf8(bytes) ==
    IF bytes = <<>> THEN TRUE
    ELSE LET n == Len(bytes)
             b1 == bytes[1]
             rest(k) == SubSeq(bytes, k + 1, n)
         IN  IF b1 <= 127 THEN ValidUtf8(rest(1))
             ELSE IF b1 >= 194 /\ b1 <= 223
                  THEN n >= 2 /\ IsCont(bytes[2]) /\ ValidUtf8(rest(2))
             ELSE IF b1 >= 224 /\ b1 <= 239
                  THEN /\ n >= 3
                       /\ IsCont(bytes[2])
                       /\ (b1 = 224 => bytes[2] >= 160)
                       /\ (b1 = 237 => bytes[2] <= 159)
                       /\ IsCont(bytes[3])
                       /\ ValidUtf8(rest(3))
             ELSE IF b1 >= 240 /\ b1 <= 244
                  THEN /\ n >= 4
                       /\ IsCont(bytes[2])
                       /\ (b1 = 240 => bytes[2] >= 144)
                       /\ (b1 = 244 => bytes[2] <= 143)
                       /\ IsCont(bytes[3])
                       /\ IsCont(bytes[4])
                       /\ ValidUtf8(rest(4))
             ELSE FALSE

\* String::from_utf8(res)
FromUtf8(res) ==
    IF ValidUtf8(res) THEN Ok(res) ELSE Err("InvalidAttribute", "FromUtf8Error")

RECURSIVE TrimEndNul(_)
\* s.trim_end_matches('\0')
TrimEndNul(s) ==
    IF s # <<>> /\ s[Len(s)] = 0 THEN TrimEndNul(SubSeq(s, 1, Len(s) - 1)) ELSE s

\* name.starts_with("Aranet4")
StartsWith(name, prefix) ==
    /\ Len(name) >= Len(prefix)
    /\ SubSeq(name, 1, Len(prefix)) = prefix

----------------------------------------------------------------------------
(* Characteristics *)

\* a btleplug Characteristic: its uuid, and inst to tell apart two of one uuid
Char(uuid, inst) == [uuid |-> uuid, inst |-> inst]

RECURSIVE FindCharacteristic(_, _)
\* chars.into_iter().find(|c| c.uuid == uuid)
FindCharacteristic(list, uuid) ==
    IF list = <<>> THEN None
    ELSE IF list[1].uuid = uuid THEN Some(list[1])
    ELSE FindCharacteristic(Tail(list), uuid)

\* the fields of Info, in declaration order, with the uuid each is read from
InfoFields == <<"model_number", "serial_number", "firmware_revision",
                "hardware_revision", "software_revision", "manufacturer_name">>

FieldSet == {InfoFields[i] : i \in 1..Len(InfoFields)}

\* the match on characteristic.uuid in info(): the local a uuid is read into
FieldOf(uuid) ==
    CASE uuid = UUID_MODEL_NUMBER -> "model_number"
      [] uuid = UUID_SERIAL_NUMBER -> "serial_number"
      [] uuid = UUID_FIRMWARE_REVISION -> "firmware_revision"
      [] uuid = UUID_HARDWARE_REVISION -> "hardware_revision"
      [] uuid = UUID_SOFTWARE_REVISION -> "software_revision"
      [] uuid = UUID_MANUFACTURER_NAME -> "manufacturer_name"
      [] OTHER -> "_"

\* every arm trimming
AllFieldsTrimmed == FieldSet

\* the fields whose arm calls trim_end_matches('\0')
TrimmedFields == {"model_number", "manufacturer_name"}

\* one arm of the match: from_utf8, the trim of that arm, to_string
ConvertField(field, res) ==
    LET s == FromUtf8(res)
    IN  IF s.kind = "Err" THEN s
        ELSE IF field \in TrimmedFields THEN Ok(TrimEndNul(s.v))
        ELSE Ok(s.v)

NoFields == [f \in FieldSet |-> None]

RECURSIVE LastMissing(_, _)
\* a chain that tests the fields from the last one down
LastMissing(fs, i) ==
    IF i > Len(InfoFields) THEN None
    ELSE IF ~fs[InfoFields[Len(InfoFields) + 1 - i]].some
         THEN Some(InfoFields[Len(InfoFields) + 1 - i])
    ELSE LastMissing(fs, i + 1)

RECURSIVE FirstMissing(_, _)
\* the let-else chain after the loop: the first field still None, from position i
FirstMissing(fs, i) ==
    IF i > Len(InfoFields) THEN None
    ELSE IF ~fs[InfoFields[i]].some THEN Some(InfoFields[i])
    ELSE FirstMissing(fs, i + 1)

\* an Info record with an empty string for each field still None
AssembleInfoDefaults(fs) ==
    Ok([f \in FieldSet |-> IF fs[f].some THEN fs[f].v ELSE <<>>])

\* the end of info(): MissingAttribute for the first None, else the Info record
AssembleInfo(fs) ==
    LET missing == FirstMissing(fs, 1)
    IN  IF missing.some THEN Err("MissingAttribute", missing.v)
        ELSE Ok([f \in FieldSet |-> fs[f].v])

----------------------------------------------------------------------------
(* What the transport and the device may answer: the inputs of the model *)

U16Bytes(x) == <<x % 256, x \div 256>>

\* a 13-byte reading in the device's layout, followed by filler bytes
FullPayload(co2, t, p, h, b, st, iv, sn) ==
    LET body == U16Bytes(co2) \o U16Bytes(t) \o U16Bytes(p) \o <<h, b, st>>
                \o U16Bytes(iv) \o U16Bytes(sn)
    IN  [i \in 1..(MaxPayloadLen + 13) |-> IF i <= 13 THEN body[i] ELSE 170]

Co2Samples == {1000, 65535}
TemperatureSamples == {7040, 1, 65535}
PressureSamples == {800, 10139}
\* humidity and battery bytes
PercentSamples == {<<50, 100>>, <<255, 0>>}
\* interval and since_last_update
SecondsSamples == {<<60, 5>>, <<256, 65535>>}
StatusSamples == {0, 1, 2, 3, 4, 255}

\* every prefix, of 0..MaxPayloadLen bytes, of a sampled reading
Payloads ==
    { SubSeq(FullPayload(co2, t, p, hb[1], hb[2], st, secs[1], secs[2]), 1, n) :
        co2 \in Co2Samples, t \in TemperatureSamples, p \in PressureSamples,
        hb \in PercentSamples, st \in StatusSamples, secs \in SecondsSamples,
        n \in 0..MaxPayloadLen }

\* values of the identity characteristics: "Acme\0\0", "1.0\0", "é",
\* and two that are not UTF-8 (a stray 0xFF, an encoded surrogate)
ValidStrings == {<<65, 99, 109, 101, 0, 0>>, <<49, 46, 48, 0>>, <<195, 169>>}
InvalidStrings == {<<65, 255>>, <<237, 160, 128>>}
IdentityValues == ValidStrings \cup InvalidStrings

IdentityUuids == <<UUID_MODEL_NUMBER, UUID_SERIAL_NUMBER, UUID_FIRMWARE_REVISION,
                   UUID_HARDWARE_REVISION, UUID_SOFTWARE_REVISION,
                   UUID_MANUFACTURER_NAME>>

\* a characteristic the crate does not know (battery level)
UUID_OTHER == "00002a19-0000-1000-8000-00805f9b34fb"

IdentityList == [i \in 1..6 |-> Char(IdentityUuids[i], 1)]
FullList == IdentityList \o <<Char(CURRENT_READINGS_CHARACTERISTIC, 1)>>
Without(list, uuids) == SelectSeq(list, LAMBDA c : c.uuid \notin uuids)
Reverse(list) == [i \in 1..Len(list) |-> list[Len(list) + 1 - i]]

\* the lists characteristics() returns while connect() resolves the handle
ConnectCharLists ==
    { FullList,
      IdentityList,
      <<>>,
      <<Char(UUID_OTHER, 1), Char(CURRENT_READINGS_CHARACTERISTIC, 2),
        Char(CURRENT_READINGS_CHARACTERISTIC, 1)>> }

\* the lists characteristics() returns inside info()
InfoCharLists ==
    { FullList }
    \cup { Without(FullList, {u}) : u \in {IdentityUuids[i] : i \in 1..6} }
    \cup { Without(FullList, {UUID_SERIAL_NUMBER, UUID_SOFTWARE_REVISION}),
           Reverse(Without(FullList, {UUID_MODEL_NUMBER, UUID_MANUFACTURER_NAME})),
           <<Char(CURRENT_READINGS_CHARACTERISTIC, 1)>>,
           <<Char(UUID_OTHER, 1), Char(UUID_SERIAL_NUMBER, 1),
             Char(CURRENT_READINGS_CHARACTERISTIC, 1), Char(UUID_SERIAL_NUMBER, 2)>> }

----------------------------------------------------------------------------
(* Steps shared by the calls *)

Call(call, p, c, res) == [call |-> call, on |-> p, char |-> c, res |-> res]

\* a call returns res to its caller; a panic ends the process
Finish(res) ==
    /\ result' = res
    /\ pc' = IF res.kind = "Panic" THEN "panicked" ELSE "idle"

\* a public function of the handle is entered: its locals start afresh
Enter(name, first) ==
    /\ handle.some
    /\ op' = name
    /\ pc' = first
    /\ result' = NoResult
    /\ calls' = <<>>
    /\ idx' = 0
    /\ fields' = NoFields
    /\ chars' = <<>>
    /\ UNCHANGED <<handle, connected, searchVars>>

\* `if !self.device.is_connected().await? { ... }` at the top of info() and
\* measurements(): to reconnectPc when not connected, else to nextPc
IsConnectedStep(reconnectPc, nextPc) ==
    LET dev == handle.v.device IN
    /\ \/ /\ calls' = Append(calls, Call("is_connected", dev, None, Ok(dev \in connected)))
          /\ pc' = IF dev \in connected THEN nextPc ELSE reconnectPc
          /\ UNCHANGED result
       \/ \E e \in TransportErrors :
            /\ calls' = Append(calls, Call("is_connected", dev, None, Err("BTLE", e)))
            /\ Finish(Err("BTLE", e))
    /\ UNCHANGED <<op, handle, connected, chars, handleVars, searchVars>>

\* a reconnect that looks the characteristic up again after connecting
ReconnectStepResolving(nextPc) ==
    LET dev == handle.v.device IN
    /\ \/ /\ calls' = Append(calls, Call("connect", dev, None, Ok(TRUE)))
          /\ connected' = connected \cup {dev}
          /\ \E inst \in 1..2 :
               handle' = Some([device |-> dev,
                               current_readings |->
                                   Char(CURRENT_READINGS_CHARACTERISTIC, inst)])
          /\ IF nextPc = "idle" THEN Finish(Ok("unit"))
             ELSE pc' = nextPc /\ UNCHANGED result
       \/ \E e \in TransportErrors :
            /\ calls' = Append(calls, Call("connect", dev, None, Err("BTLE", e)))
            /\ Finish(Err("BTLE", e))
            /\ UNCHANGED <<connected, handle>>
    /\ UNCHANGED <<op, chars, handleVars, searchVars>>

\* Aranet4::reconnect: self.device.connect().await?; Ok(())
ReconnectStep(nextPc) ==
    LET dev == handle.v.device IN
    /\ \/ /\ calls' = Append(calls, Call("connect", dev, None, Ok(TRUE)))
          /\ connected' = connected \cup {dev}
          /\ IF nextPc = "idle" THEN Finish(Ok("unit"))
             ELSE pc' = nextPc /\ UNCHANGED result
       \/ \E e \in TransportErrors :
            /\ calls' = Append(calls, Call("connect", dev, None, Err("BTLE", e)))
            /\ Finish(Err("BTLE", e))
            /\ UNCHANGED connected
    /\ UNCHANGED <<op, handle, chars, handleVars, searchVars>>

\* what self.device.read(c) may answer: bytes out of values while the link is
\* up, a transport error otherwise or at any time
ReadAnswers(values) ==
    IF handle.v.device \in connected
    THEN {Ok(v) : v \in values} \cup {Err("BTLE", "Other")}
    ELSE {Err("BTLE", "NotConnected")}

----------------------------------------------------------------------------
(* Aranet4::measurements *)

MeasurementsCall ==
    /\ pc = "idle"
    /\ Enter("measurements", "m_is_connected")

\* the connectivity check without the reconnect
MIsConnectedNoReconnect ==
    /\ pc = "m_is_connected"
    /\ IsConnectedStep("m_read", "m_read")

MIsConnected ==
    /\ pc = "m_is_connected"
    /\ IsConnectedStep("m_reconnect", "m_read")

MReconnect ==
    /\ pc = "m_reconnect"
    /\ ReconnectStep("m_read")

\* a read that reconnects and reads again when the link turns out to be down
MReadRetrying ==
    /\ pc = "m_read"
    /\ \E ans \in ReadAnswers(Payloads) :
         /\ calls' = Append(calls, Call("read", handle.v.device,
                                        Some(handle.v.current_readings), ans))
         /\ IF ans = Err("BTLE", "NotConnected")
            THEN pc' = "m_reconnect" /\ UNCHANGED result
            ELSE Finish(IF ans.kind = "Err" THEN ans ELSE Decode(ans.v))
    /\ UNCHANGED <<op, handle, connected, chars, handleVars, searchVars>>

\* the read of self.current_readings and the decoding of what it returned
MRead ==
    /\ pc = "m_read"
    /\ \E ans \in ReadAnswers(Payloads) :
         /\ calls' = Append(calls, Call("read", handle.v.device,
                                        Some(handle.v.current_readings), ans))
         /\ Finish(IF ans.kind = "Err" THEN ans ELSE Decode(ans.v))
    /\ UNCHANGED <<op, handle, connected, chars, handleVars, searchVars>>

----------------------------------------------------------------------------
(* Aranet4::info *)

InfoCall ==
    /\ pc = "idle"
    /\ Enter("info", "i_is_connected")

\* info() going on to the characteristics whatever is_connected answered
IIsConnectedNoReconnect ==
    /\ pc = "i_is_connected"
    /\ IsConnectedStep("i_chars", "i_chars")

IIsConnected ==
    /\ pc = "i_is_connected"
    /\ IsConnectedStep("i_reconnect", "i_chars")

IReconnect ==
    /\ pc = "i_reconnect"
    /\ ReconnectStep("i_chars")

\* `for characteristic in self.device.characteristics()`: the list is taken once
ICharacteristics ==
    /\ pc = "i_chars"
    /\ \E list \in InfoCharLists : chars' = list
    /\ idx' = 1
    /\ pc' = "i_loop"
    /\ UNCHANGED <<op, result, handle, connected, calls, fields, searchVars>>

\* one iteration of the loop: the arm of the match for chars[idx]
ILoop ==
    /\ pc = "i_loop"
    /\ idx <= Len(chars)
    /\ LET c == chars[idx]
           field == FieldOf(c.uuid)
       IN  IF field \notin FieldSet
           THEN /\ idx' = idx + 1
                /\ UNCHANGED <<pc, result, calls, fields>>
           ELSE \E ans \in ReadAnswers(IdentityValues) :
                  /\ calls' = Append(calls, Call("read", handle.v.device, Some(c), ans))
                  /\ IF ans.kind = "Err"
                     THEN Finish(ans) /\ UNCHANGED <<idx, fields>>
                     ELSE LET s == ConvertField(field, ans.v)
                          IN  IF s.kind = "Err"
                              THEN Finish(s) /\ UNCHANGED <<idx, fields>>
                              ELSE /\ fields' = [fields EXCEPT ![field] = Some(s.v)]
                                   /\ idx' = idx + 1
                                   /\ UNCHANGED <<pc, result>>
    /\ UNCHANGED <<op, handle, connected, chars, searchVars>>

\* after the loop: the let-else chain and the Info record
IAssemble ==
    /\ pc = "i_loop"
    /\ idx > Len(chars)
    /\ Finish(AssembleInfo(fields))
    /\ UNCHANGED <<op, handle, connected, chars, calls, handleVars, searchVars>>

----------------------------------------------------------------------------
(* Aranet4::reconnect and Aranet4::disconnect, called by the user *)

ReconnectCall ==
    /\ pc = "idle"
    /\ Enter("reconnect", "r_connect")

RConnect ==
    /\ pc = "r_connect"
    /\ ReconnectStep("idle")

DisconnectCall ==
    /\ pc = "idle"
    /\ Enter("disconnect", "d_disconnect")

\* self.device.disconnect().await?; Ok(())
DDisconnect ==
    /\ pc = "d_disconnect"
    /\ LET dev == handle.v.device IN
       \/ /\ calls' = Append(calls, Call("disconnect", dev, None, Ok(TRUE)))
          /\ connected' = connected \ {dev}
          /\ Finish(Ok("unit"))
       \/ \E e \in TransportErrors :
            /\ calls' = Append(calls, Call("disconnect", dev, None, Err("BTLE", e)))
            /\ Finish(Err("BTLE", e))
            /\ UNCHANGED connected
    /\ UNCHANGED <<op, handle, chars, handleVars, searchVars>>

----------------------------------------------------------------------------
(* The environment of a handle *)

\* the link of the handle's peripheral goes down on the transport's side
Drop ==
    /\ handle.some
    /\ pc # "panicked"
    /\ handle.v.device \in connected
    /\ connected' = connected \ {handle.v.device}
    /\ UNCHANGED <<pc, op, result, handle, chars, calls, handleVars, searchVars>>

----------------------------------------------------------------------------
(* The handle after connect() returned it *)

\* a handle built from the first characteristic listed, whatever its uuid
ResolveFirstListed(p, list) ==
    IF list # <<>> THEN Ok([device |-> p, current_readings |-> list[1]])
    ELSE Err("CharacteristicNotFound", CURRENT_READINGS_CHARACTERISTIC)

\* the Aranet4 value connect() builds for peripheral p with characteristics list
Resolve(p, list) ==
    LET c == FindCharacteristic(list, CURRENT_READINGS_CHARACTERISTIC)
    IN  IF c.some THEN Ok([device |-> p, current_readings |-> c.v])
        ELSE Err("CharacteristicNotFound", CURRENT_READINGS_CHARACTERISTIC)

InitHandle ==
    /\ pc = "idle"
    /\ op = "connect"
    /\ \E p \in Peripherals : \E list \in ConnectCharLists :
         /\ Resolve(p, list).kind = "Ok"
         /\ chars = list
         /\ result = Resolve(p, list)
         /\ handle = Some(Resolve(p, list).v)
         /\ connected = {p}
         /\ known = <<p>>
         /\ calls = <<Call("connect", p, None, Ok(TRUE))>>
    /\ idx = 0
    /\ fields = NoFields
    /\ adapters = <<1>>
    /\ adapter = 1
    /\ device = handle.v.device
    /\ scanning = {1}
    /\ adv = [q \in Peripherals |-> None]
    /\ now = 0
    /\ fd = "done"
    /\ snapshot = <<>>
    /\ fi = 0
    /\ wake = 0
    /\ seenMatch = TRUE

NextHandle ==
    \/ MeasurementsCall \/ MIsConnected \/ MReconnect \/ MRead
    \/ InfoCall \/ IIsConnected \/ IReconnect \/ ICharacteristics \/ ILoop \/ IAssemble
    \/ ReconnectCall \/ RConnect
    \/ DisconnectCall \/ DDisconnect
    \/ Drop

SpecHandle == InitHandle /\ [][NextHandle]_vars

----------------------------------------------------------------------------
(* connect(): what the platform may show *)

\* the adapter lists Manager::adapters may return
AdapterLists == {<<>>, <<2, 1>>}

\* advertised local names: none, "Aranet4 0", "Aranet", "xAranet4"
NameOptions ==
    { None,
      Some(NAME_PREFIX \o <<32, 48>>),
      Some(SubSeq(NAME_PREFIX, 1, 6)),
      Some(<<120>> \o NAME_PREFIX) }

\* a test that lets a peripheral without a name through
NameMatchesOrAbsent(local_name) ==
    ~local_name.some \/ StartsWith(local_name.v, NAME_PREFIX)

\* the test find_device applies to a peripheral's properties
NameMatches(local_name) == local_name.some /\ StartsWith(local_name.v, NAME_PREFIX)

MatchKnown(list, names) == \E i \in 1..Len(list) : NameMatches(names[list[i]])

InitConnect ==
    /\ pc = "c_manager"
    /\ op = "connect"
    /\ result = NoResult
    /\ handle = None
    /\ connected = {}
    /\ chars = <<>>
    /\ calls = <<>>
    /\ idx = 0
    /\ fields = NoFields
    /\ adapters \in AdapterLists
    /\ adapter = 0
    /\ device = 0
    /\ scanning = {}
    /\ known = <<>>
    /\ adv = [q \in Peripherals |-> None]
    /\ now = 0
    /\ fd = "idle"
    /\ snapshot = <<>>
    /\ fi = 0
    /\ wake = 0
    /\ seenMatch = FALSE

connectLocals == <<adapter, device, now, fd, snapshot, fi, wake>>
world == <<adapters, scanning, known, adv, seenMatch>>

\* Manager::new().await.unwrap()
CManager ==
    /\ pc = "c_manager"
    /\ \/ /\ calls' = Append(calls, Call("manager", 0, None, Ok(TRUE)))
          /\ pc' = "c_adapters"
          /\ UNCHANGED result
       \/ \E e \in TransportErrors :
            /\ calls' = Append(calls, Call("manager", 0, None, Err("BTLE", e)))
            /\ Finish(UnwrapPanic("Manager::new"))
    /\ UNCHANGED <<op, handle, connected, chars, handleVars, searchVars>>

\* the adapter step taking the last adapter of the list instead of the first
CAdaptersLast ==
    /\ pc = "c_adapters"
    /\ \/ /\ calls' = Append(calls, Call("adapters", 0, None, Ok(adapters)))
          /\ IF adapters = <<>>
             THEN Finish(Err("AdapterUnavaliable", "")) /\ UNCHANGED adapter
             ELSE /\ adapter' = adapters[Len(adapters)]
                  /\ pc' = "c_scan"
                  /\ UNCHANGED result
       \/ \E e \in TransportErrors :
            /\ calls' = Append(calls, Call("adapters", 0, None, Err("BTLE", e)))
            /\ Finish(Err("AdapterUnavaliable", ""))
            /\ UNCHANGED adapter
    /\ UNCHANGED <<op, handle, connected, chars, handleVars, world,
                   device, now, fd, snapshot, fi, wake>>

\* manager.adapters().await.map_err(|_| AdapterUnavaliable)? and
\* adapters.first().ok_or(AdapterUnavaliable)?
CAdapters ==
    /\ pc = "c_adapters"
    /\ \/ /\ calls' = Append(calls, Call("adapters", 0, None, Ok(adapters)))
          /\ IF adapters = <<>>
             THEN Finish(Err("AdapterUnavaliable", "")) /\ UNCHANGED adapter
             ELSE /\ adapter' = adapters[1]
                  /\ pc' = "c_scan"
                  /\ UNCHANGED result
       \/ \E e \in TransportErrors :
            /\ calls' = Append(calls, Call("adapters", 0, None, Err("BTLE", e)))
            /\ Finish(Err("AdapterUnavaliable", ""))
            /\ UNCHANGED adapter
    /\ UNCHANGED <<op, handle, connected, chars, handleVars, world,
                   device, now, fd, snapshot, fi, wake>>

\* adapter.start_scan(ScanFilter { services: vec![ADVERTISED_SERVICE] }).await?
\* and the entry into select!: both futures are created, the timer is armed
CStartScan ==
    /\ pc = "c_scan"
    /\ \/ /\ calls' = Append(calls, Call("start_scan", adapter, None, Ok(ADVERTISED_SERVICE)))
          /\ scanning' = scanning \cup {adapter}
          /\ pc' = "c_search"
          /\ fd' = "poll"
          /\ now' = 0
          /\ UNCHANGED result
       \/ \E e \in TransportErrors :
            /\ calls' = Append(calls, Call("start_scan", adapter, None, Err("BTLE", e)))
            /\ Finish(Err("BTLE", e))
            /\ UNCHANGED <<scanning, fd, now>>
    /\ UNCHANGED <<op, handle, connected, chars, handleVars, adapters, known, adv,
                   seenMatch, adapter, device, snapshot, fi, wake>>

----------------------------------------------------------------------------
(* find_device, polled by the select! of connect(): the future runs while it *)
(* exists (fd is "poll", "for" or "sleep") and ends when it returns, panics  *)
(* or is dropped (fd = "done")                                               *)

\* let peripherals = adapter.peripherals().await.unwrap()
FdPeripherals ==
    /\ fd = "poll"
    /\ \/ /\ snapshot' = known
          /\ fi' = 1
          /\ fd' = "for"
          /\ UNCHANGED <<pc, result>>
       \/ /\ Finish(UnwrapPanic("peripherals"))
          /\ fd' = "done"
          /\ UNCHANGED <<snapshot, fi>>
    /\ UNCHANGED <<op, handle, connected, chars, calls, handleVars, world,
                   adapter, device, now, wake>>

\* a loop that passes over a match when a later entry of the list matches too
FdPropertiesLastMatch ==
    /\ fd = "for"
    /\ fi <= Len(snapshot)
    /\ LET peripheral == snapshot[fi] IN
       \/ /\ Finish(UnwrapPanic("properties"))
          /\ UNCHANGED <<fi, device>>
       \/ /\ Finish(UnwrapNonePanic("properties"))
          /\ UNCHANGED <<fi, device>>
       \/ LET local_name == adv[peripheral] IN
          IF /\ NameMatches(local_name)
             /\ \A j \in (fi + 1)..Len(snapshot) : ~NameMatches(adv[snapshot[j]])
          THEN /\ device' = peripheral
               /\ pc' = "c_connect"
               /\ UNCHANGED <<fi, result>>
          ELSE /\ fi' = fi + 1
               /\ UNCHANGED <<pc, result, device>>
    /\ fd' = IF pc' = "c_search" THEN fd ELSE "done"
    /\ UNCHANGED <<op, handle, connected, chars, calls, handleVars, world,
                   adapter, now, snapshot, wake>>

\* one iteration of the for loop: properties().await.unwrap().unwrap(), the
\* let-else on local_name and the starts_with test
FdProperties ==
    /\ fd = "for"
    /\ fi <= Len(snapshot)
    /\ LET peripheral == snapshot[fi] IN
       \/ /\ Finish(UnwrapPanic("properties"))
          /\ UNCHANGED <<fi, device>>
       \/ /\ Finish(UnwrapNonePanic("properties"))
          /\ UNCHANGED <<fi, device>>
       \/ LET local_name == adv[peripheral] IN
          IF NameMatches(local_name)
          THEN /\ device' = peripheral
               /\ pc' = "c_connect"
               /\ UNCHANGED <<fi, result>>
          ELSE /\ fi' = fi + 1
               /\ UNCHANGED <<pc, result, device>>
    /\ fd' = IF pc' = "c_search" THEN fd ELSE "done"
    /\ UNCHANGED <<op, handle, connected, chars, calls, handleVars, world,
                   adapter, now, snapshot, wake>>

\* the list is exhausted: tokio::time::sleep(1 s) starts
FdSleep ==
    /\ fd = "for"
    /\ fi > Len(snapshot)
    /\ wake' = now + POLL_INTERVAL_SECS
    /\ fd' = "sleep"
    /\ UNCHANGED <<pc, op, result, handle, connected, chars, calls, handleVars, world,
                   adapter, device, now, snapshot, fi>>

\* the sleep is over: the loop starts again
FdWake ==
    /\ fd = "sleep"
    /\ now >= wake
    /\ fd' = "poll"
    /\ UNCHANGED <<pc, op, result, handle, connected, chars, calls, handleVars, world,
                   adapter, device, now, snapshot, fi, wake>>

\* a timer that is not cancelled when find_device has returned
TimeoutAfterMatch ==
    /\ pc \in {"c_search", "c_connect"}
    /\ now >= SEARCH_TIMEOUT_SECS
    /\ Finish(Err("SearchTimeout", ""))
    /\ fd' = "done"
    /\ UNCHANGED <<op, handle, connected, chars, calls, handleVars, world,
                   adapter, device, now, snapshot, fi, wake>>

\* a timeout that returns while find_device keeps running
TimeoutWithoutDrop ==
    /\ pc = "c_search"
    /\ now >= SEARCH_TIMEOUT_SECS
    /\ Finish(Err("SearchTimeout", ""))
    /\ UNCHANGED <<op, handle, connected, chars, calls, handleVars, world,
                   adapter, device, now, fd, snapshot, fi, wake>>

\* the other branch of select!: sleep(10 s) completes, find_device is dropped
Timeout ==
    /\ pc = "c_search"
    /\ now >= SEARCH_TIMEOUT_SECS
    /\ Finish(Err("SearchTimeout", ""))
    /\ fd' = "done"
    /\ UNCHANGED <<op, handle, connected, chars, calls, handleVars, world,
                   adapter, device, now, snapshot, fi, wake>>

----------------------------------------------------------------------------
(* connect(): after the search *)

\* a connect() that disconnects and stops the scan when no handle can be built
CConnectRollingBack ==
    /\ pc = "c_connect"
    /\ \/ \E list \in ConnectCharLists :
            /\ chars' = list
            /\ Finish(Resolve(device, list))
            /\ IF Resolve(device, list).kind = "Ok"
               THEN /\ calls' = Append(calls, Call("connect", device, None, Ok(TRUE)))
                    /\ connected' = connected \cup {device}
                    /\ handle' = Some(Resolve(device, list).v)
                    /\ UNCHANGED scanning
               ELSE /\ calls' = calls \o <<Call("connect", device, None, Ok(TRUE)),
                                          Call("disconnect", device, None, Ok(TRUE)),
                                          Call("stop_scan", adapter, None, Ok(TRUE))>>
                    /\ connected' = connected \ {device}
                    /\ scanning' = scanning \ {adapter}
                    /\ UNCHANGED handle
       \/ \E e \in TransportErrors :
            /\ calls' = Append(calls, Call("connect", device, None, Err("BTLE", e)))
            /\ Finish(Err("BTLE", e))
            /\ UNCHANGED <<connected, chars, handle, scanning>>
    /\ UNCHANGED <<op, handleVars, adapters, known, adv, seenMatch, connectLocals>>

\* device.connect().await?, then the characteristic is looked up and the
\* handle built
CConnect ==
    /\ pc = "c_connect"
    /\ \/ /\ calls' = Append(calls, Call("connect", device, None, Ok(TRUE)))
          /\ connected' = connected \cup {device}
          /\ \E list \in ConnectCharLists :
               /\ chars' = list
               /\ Finish(Resolve(device, list))
               /\ handle' = IF Resolve(device, list).kind = "Ok"
                            THEN Some(Resolve(device, list).v) ELSE handle
       \/ \E e \in TransportErrors :
            /\ calls' = Append(calls, Call("connect", device, None, Err("BTLE", e)))
            /\ Finish(Err("BTLE", e))
            /\ UNCHANGED <<connected, chars, handle>>
    /\ UNCHANGED <<op, handleVars, searchVars>>

----------------------------------------------------------------------------
(* The environment of connect() *)

\* the adapter's view of the air changes until the search has ended
Searching == pc \in {"c_scan", "c_search"}

\* a second elapses while the select! is pending
Tick ==
    /\ pc = "c_search"
    /\ now < SEARCH_TIMEOUT_SECS
    /\ now' = now + 1
    /\ UNCHANGED <<pc, op, result, handle, connected, chars, calls, handleVars, world,
                   adapter, device, fd, snapshot, fi, wake>>

\* the adapter learns of a peripheral, with or without a local name
Discover ==
    /\ Searching
    /\ \E p \in Peripherals : \E name \in NameOptions :
         /\ \A i \in 1..Len(known) : known[i] # p
         /\ known' = Append(known, p)
         /\ adv' = [adv EXCEPT ![p] = name]
    /\ seenMatch' = (seenMatch \/ MatchKnown(known', adv'))
    /\ UNCHANGED <<pc, op, result, handle, connected, chars, calls, handleVars,
                   adapters, scanning, connectLocals>>

\* a later advertisement of a known peripheral sets or changes its local name
Advertise ==
    /\ Searching
    /\ \E i \in 1..Len(known) : \E name \in NameOptions :
         /\ adv[known[i]] # name
         /\ adv' = [adv EXCEPT ![known[i]] = name]
    /\ seenMatch' = (seenMatch \/ MatchKnown(known, adv'))
    /\ UNCHANGED <<pc, op, result, handle, connected, chars, calls, handleVars,
                   adapters, scanning, known, connectLocals>>

NextConnect ==
    \/ CManager \/ CAdapters \/ CStartScan
    \/ FdPeripherals \/ FdProperties \/ FdSleep \/ FdWake \/ Timeout
    \/ CConnect
    \/ Tick \/ Discover \/ Advertise

SpecConnect == InitConnect /\ [][NextConnect]_vars

----------------------------------------------------------------------------
(* Properties of measurements(): the decoding *)

Returned == pc \in {"idle", "panicked"} /\ result # NoResult

\* measurements() has ended after its read returned bytes
MeasurementRead ==
    /\ op = "measurements"
    /\ Returned
    /\ calls # <<>>
    /\ calls[Len(calls)].call = "read"
    /\ calls[Len(calls)].res.kind = "Ok"

\* the bytes that read returned
Payload == calls[Len(calls)].res.v

\* byte i of the payload, counted from 0 as in the layout
Byte(i) == Payload[i + 1]

\* C2: a payload of at least 13 bytes whose status byte (offset 8) is not 1, 2
\* or 3 makes measurements() return a DeviceError: no record, and no panic
C2_InvalidStatusIsError ==
    (MeasurementRead /\ Len(Payload) >= 13 /\ Byte(8) \notin {1, 2, 3})
        => (pc = "idle" /\ result.kind = "Err")

\* C3: a payload of 0..12 bytes, whatever it holds, makes measurements() return
\* DeviceError::IO: no panic, no record
C3_ShortPayloadIsIoError ==
    (MeasurementRead /\ Len(Payload) < 13)
        => (pc = "idle" /\ result = Err("IO", "UnexpectedEof"))

\* a 12-byte payload with an invalid status byte was answered with the IO error
C3_Witness ==
    /\ MeasurementRead
    /\ Len(Payload) = 12
    /\ Byte(8) = 255
    /\ result = Err("IO", "UnexpectedEof")

\* t is the f32 nearest to raw / 20: normalised, and within half a unit of its
\* last place of the quotient (so it is raw / 20 itself whenever that is an f32)
IsF32Twentieths(t, raw) ==
    IF raw = 0 THEN t.mant = 0
    ELSE /\ t.mant >= 2 ^ 23
         /\ t.mant < 2 ^ 24
         /\ 20 * t.mant - raw * (2 ^ t.exp) <= 10
         /\ raw * (2 ^ t.exp) - 20 * t.mant <= 10

\* E8 03 80 1B 20 03 32 64 01 3C 00 05 00
ExamplePayload == <<232, 3, 128, 27, 32, 3, 50, 100, 1, 60, 0, 5, 0>>

\* 352.0 as an f32: 352 * 2^15 / 2^15
ExampleRecord ==
    [co2 |-> 1000, temperature |-> [mant |-> 11534336, exp |-> 15], pressure |-> 80,
     humidity |-> 50, battery |-> 100, status |-> "GREEN",
     interval |-> [secs |-> 60], since_last_update |-> [secs |-> 5]]

\* C4: a payload b[0..12] with b[8] in {1,2,3} decodes to co2 = b0 + 256 b1,
\* temperature = the f32 quotient (b2 + 256 b3) / 20 (not an integer division),
\* pressure = floor((b4 + 256 b5) / 10), humidity = b6, battery = b7, status
\* GREEN/AMBER/RED for 1/2/3, interval = b9 + 256 b10 s, since_last_update =
\* b11 + 256 b12 s; the example buffer decodes to the example record
C4_DecodedFields ==
    (MeasurementRead /\ Len(Payload) >= 13 /\ Byte(8) \in {1, 2, 3})
        => /\ pc = "idle"
           /\ result.kind = "Ok"
           /\ result.v.co2 = Byte(0) + 256 * Byte(1)
           /\ IsF32Twentieths(result.v.temperature, Byte(2) + 256 * Byte(3))
           /\ \E q \in 0..6553 :
                /\ result.v.pressure = q
                /\ 10 * q <= Byte(4) + 256 * Byte(5)
                /\ Byte(4) + 256 * Byte(5) < 10 * (q + 1)
           /\ result.v.humidity = Byte(6)
           /\ result.v.battery = Byte(7)
           /\ result.v.status = <<"GREEN", "AMBER", "RED">>[Byte(8)]
           /\ result.v.interval.secs = Byte(9) + 256 * Byte(10)
           /\ result.v.since_last_update.secs = Byte(11) + 256 * Byte(12)
           /\ (SubSeq(Payload, 1, 13) = ExamplePayload => result.v = ExampleRecord)

\* the example buffer was read and decoded
C4_Witness ==
    /\ MeasurementRead
    /\ Payload = ExamplePayload
    /\ result = Ok(ExampleRecord)

----------------------------------------------------------------------------
(* Properties of measurements(): the connectivity check *)

\* C5: measurements() first queries is_connected; when the answer is "not
\* connected" its next transport call is a connect on the handle's peripheral;
\* the read of the current-readings characteristic is issued only after
\* is_connected answered true or that connect succeeded
C5_ReadOnlyWhenConnected ==
    op = "measurements" =>
        /\ pc \notin {"idle", "m_is_connected"} => calls # <<>>
        /\ calls # <<>> =>
             /\ calls[1].call = "is_connected"
             /\ calls[1].on = handle.v.device
        /\ (Len(calls) >= 2 /\ calls[1].res = Ok(FALSE)) =>
             /\ calls[2].call = "connect"
             /\ calls[2].on = handle.v.device
        /\ \A k \in 1..Len(calls) :
             calls[k].call = "read" =>
                /\ k = Len(calls)
                /\ calls[k].on = handle.v.device
                /\ calls[k].char = Some(handle.v.current_readings)
                /\ \/ k = 2 /\ calls[1].res = Ok(TRUE)
                   \/ k = 3 /\ calls[2].call = "connect" /\ calls[2].res = Ok(TRUE)

\* a measurement was returned through a handle found disconnected: the query
\* answered false, the connect succeeded, the read returned a valid reading
C5_Witness ==
    /\ op = "measurements"
    /\ pc = "idle"
    /\ result.kind = "Ok"
    /\ Len(calls) = 3
    /\ calls[1].res = Ok(FALSE)
    /\ calls[2].call = "connect"
    /\ calls[3].call = "read"

----------------------------------------------------------------------------
(* Properties of info() *)

\* the uuid each field of Info is read from
IdentityFieldUuid ==
    [model_number |-> "00002a24-0000-1000-8000-00805f9b34fb",
     serial_number |-> "00002a25-0000-1000-8000-00805f9b34fb",
     firmware_revision |-> "00002a26-0000-1000-8000-00805f9b34fb",
     hardware_revision |-> "00002a27-0000-1000-8000-00805f9b34fb",
     software_revision |-> "00002a28-0000-1000-8000-00805f9b34fb",
     manufacturer_name |-> "00002a29-0000-1000-8000-00805f9b34fb"]

IdentityFieldNames == DOMAIN IdentityFieldUuid

InfoReturned == op = "info" /\ Returned

\* field f's characteristic is among the characteristics info() iterated over
Present(f) == \E i \in 1..Len(chars) : chars[i].uuid = IdentityFieldUuid[f]

\* the positions in calls of the reads of field f's characteristic
ReadsOf(f) ==
    { k \in 1..Len(calls) :
        calls[k].call = "read" /\ calls[k].char.v.uuid = IdentityFieldUuid[f] }

\* the value the last read of field f's characteristic returned
LastReadValue(f) ==
    calls[CHOOSE k \in ReadsOf(f) : \A j \in ReadsOf(f) : j <= k].res.v

\* no transport call of info() failed and every value read was UTF-8
AllReadsSucceeded ==
    \A k \in 1..Len(calls) :
        /\ calls[k].res.kind = "Ok"
        /\ calls[k].call = "read" => calls[k].res.v \in ValidStrings

IsPrefix(s, t) == Len(s) <= Len(t) /\ SubSeq(t, 1, Len(s)) = s

\* C6: info() returns an Info record only if each of the six identity
\* characteristics was present and read successfully, each field coming from a
\* value read; if one is absent and all reads succeed, it fails with
\* MissingAttribute naming a field that is absent (serial_number when only that
\* one is), and it never panics
C6_InfoNeedsAllSix ==
    /\ op = "info" => pc # "panicked"
    /\ InfoReturned =>
        /\ result.kind = "Ok" =>
             \A f \in IdentityFieldNames :
                /\ Present(f)
                /\ \E k \in ReadsOf(f) :
                     /\ calls[k].res.kind = "Ok"
                     /\ IsPrefix(result.v[f], calls[k].res.v)
        /\ (AllReadsSucceeded /\ \E f \in IdentityFieldNames : ~Present(f)) =>
             /\ result.kind = "Err"
             /\ result.variant = "MissingAttribute"
             /\ result.arg \in IdentityFieldNames
             /\ ~Present(result.arg)
        /\ (AllReadsSucceeded
              /\ \A f \in IdentityFieldNames : Present(f) <=> f # "serial_number")
             => result = Err("MissingAttribute", "serial_number")

\* only the serial number was absent, every read succeeded, and info() failed
\* with MissingAttribute("serial_number")
C6_Witness ==
    /\ InfoReturned
    /\ AllReadsSucceeded
    /\ Len(calls) = 6
    /\ \A f \in IdentityFieldNames : Present(f) <=> f # "serial_number"
    /\ result = Err("MissingAttribute", "serial_number")

\* s is raw without its trailing NUL bytes
IsNulStripped(s, raw) ==
    /\ IsPrefix(s, raw)
    /\ \A i \in (Len(s) + 1)..Len(raw) : raw[i] = 0
    /\ s # <<>> => s[Len(s)] # 0

\* C7: in the Info record, manufacturer_name and model_number are the value
\* read without its trailing NULs ("Acme\0\0" gives "Acme"); the other four
\* fields are the value read, unmodified ("1.0\0" stays "1.0\0")
C7_NulStripping ==
    (InfoReturned /\ result.kind = "Ok") =>
        \A f \in IdentityFieldNames :
            IF f \in {"manufacturer_name", "model_number"}
            THEN /\ IsNulStripped(result.v[f], LastReadValue(f))
                 /\ LastReadValue(f) = <<65, 99, 109, 101, 0, 0>>
                      => result.v[f] = <<65, 99, 109, 101>>
            ELSE result.v[f] = LastReadValue(f)

\* an Info record whose manufacturer name was read as "Acme\0\0" and whose
\* firmware revision was read as "1.0\0"
C7_Witness ==
    /\ InfoReturned
    /\ result.kind = "Ok"
    /\ LastReadValue("manufacturer_name") = <<65, 99, 109, 101, 0, 0>>
    /\ result.v.manufacturer_name = <<65, 99, 109, 101>>
    /\ LastReadValue("firmware_revision") = <<49, 46, 48, 0>>
    /\ result.v.firmware_revision = <<49, 46, 48, 0>>

----------------------------------------------------------------------------
(* Properties of the handle *)

\* C9: no step of measurements(), info(), reconnect() or disconnect(), nor a
\* drop of the link, changes the handle's peripheral or its current-readings
\* characteristic
C9_HandleNeverChanges == [][handle' = handle]_vars

\* disconnect() returned Ok: the link is down, and the handle still holds its
\* peripheral and the current-readings characteristic
C9_Witness ==
    /\ op = "disconnect"
    /\ pc = "idle"
    /\ result = Ok("unit")
    /\ handle.some
    /\ handle.v.device \notin connected
    /\ handle.v.current_readings.uuid = CURRENT_READINGS_CHARACTERISTIC

----------------------------------------------------------------------------
(* Properties of connect() *)

\* name is an advertised local name that starts with "Aranet4"
HasAranetName(name) ==
    /\ name.some
    /\ Len(name.v) >= 7
    /\ \A i \in 1..7 : name.v[i] = <<65, 114, 97, 110, 101, 116, 52>>[i]

SearchTimeout == Err("SearchTimeout", "")

\* the scan was started: connect() reached its select!
SearchStarted == scanning # {}

\* C1: when no known peripheral ever has a local name starting with "Aranet4",
\* connect() never selects a peripheral and never returns a handle, a search
\* that returns returns SearchTimeout, which is returned only once the 10
\* seconds have elapsed, and after it find_device takes no further step
C1_NoMatchEndsInSearchTimeout ==
    /\ [](~seenMatch =>
            /\ device = 0
            /\ ~handle.some
            /\ result.kind # "Ok"
            /\ (pc = "idle" /\ SearchStarted) => result = SearchTimeout)
    /\ [](result = SearchTimeout =>
            /\ pc = "idle"
            /\ now >= 10
            /\ fd = "done"
            /\ device = 0
            /\ ~handle.some)
    /\ [][result = SearchTimeout =>
            UNCHANGED <<fd, snapshot, fi, wake, device, calls, connected>>]_vars

\* peripherals were known, none ever had a matching name, and connect()
\* returned SearchTimeout at the tenth second
C1_Witness ==
    /\ ~seenMatch
    /\ Len(known) = NumPeripherals
    /\ \E i \in 1..Len(known) : adv[known[i]].some
    /\ pc = "idle"
    /\ now = 10
    /\ result = SearchTimeout

\* a step of find_device's for loop at a peripheral that has no local name
NamelessStep ==
    /\ fd = "for"
    /\ fi <= Len(snapshot)
    /\ ~adv[snapshot[fi]].some
    /\ \/ fi' # fi
       \/ device' # device
       \/ result'.kind = "Panic"

\* C8: the peripheral find_device returns has a local name starting with
\* "Aranet4"; at a peripheral without a local name the loop goes on to the next
\* one, selecting nothing and ending nothing (connect() ends there only if the
\* properties() call itself failed)
C8_NamelessIsSkipped ==
    /\ [](device # 0 => HasAranetName(adv[device]))
    /\ [](handle.some => HasAranetName(adv[handle.v.device]))
    /\ [][NamelessStep =>
            \/ /\ fi' = fi + 1
               /\ fd' = "for"
               /\ pc' = "c_search"
               /\ device' = 0
               /\ result' = NoResult
            \/ result' \in {UnwrapPanic("properties"), UnwrapNonePanic("properties")}]_vars

\* the first peripheral of the poll has no name and was passed over, the
\* second was selected and connect() returned a handle to it
C8_Witness ==
    /\ pc = "idle"
    /\ result.kind = "Ok"
    /\ Len(snapshot) = 2
    /\ fi = 2
    /\ ~adv[snapshot[1]].some
    /\ handle.v.device = snapshot[2]

\* C10: connect() returns a handle only after the connect to the matched
\* peripheral succeeded and a characteristic with the current-readings uuid was
\* found among its characteristics; the handle holds that characteristic (the
\* first with that uuid); without one connect() fails with
\* CharacteristicNotFound carrying the uuid and there is no handle
C10_HandleHoldsCurrentReadings ==
    /\ handle.some => (pc = "idle" /\ result = Ok(handle.v))
    /\ (op = "connect" /\ pc = "idle" /\ result.kind = "Ok") =>
         /\ handle = Some(result.v)
         /\ device # 0
         /\ result.v.device = device
         /\ calls[Len(calls)] = Call("connect", device, None, Ok(TRUE))
         /\ device \in connected
         /\ result.v.current_readings.uuid = "f0cd3001-95da-4f4b-9ac8-aa55d312af0c"
         /\ \E i \in 1..Len(chars) :
              /\ chars[i] = result.v.current_readings
              /\ \A j \in 1..(i - 1) :
                   chars[j].uuid # "f0cd3001-95da-4f4b-9ac8-aa55d312af0c"
    /\ (/\ op = "connect"
        /\ Returned
        /\ calls # <<>>
        /\ calls[Len(calls)].call = "connect"
        /\ calls[Len(calls)].res.kind = "Ok"
        /\ \A i \in 1..Len(chars) :
             chars[i].uuid # "f0cd3001-95da-4f4b-9ac8-aa55d312af0c") =>
         /\ result = Err("CharacteristicNotFound", "f0cd3001-95da-4f4b-9ac8-aa55d312af0c")
         /\ ~handle.some

\* a handle was returned for a peripheral with two current-readings
\* characteristics behind another one: it holds the first of the two
C10_Witness ==
    /\ pc = "idle"
    /\ handle.some
    /\ Len(chars) = 3
    /\ handle.v.current_readings = chars[2]
    /\ device \in connected

----------------------------------------------------------------------------
(* Properties of connect(): the adapter *)

AdapterUnavaliable == Err("AdapterUnavaliable", "")

\* the transport calls connect() has issued on an adapter or a peripheral
IssuedOn == { calls[i].on : i \in { j \in 1..Len(calls) :
                                      calls[j].call \in {"start_scan", "connect"} } }

\* C11: with no adapter listed, connect() ends with AdapterUnavaliable as soon
\* as the list was answered, and no scan was started, find_device never ran
\* and no connect was issued; with adapters listed, the adapter connect() scans
\* on and find_device polls is the first of the list
C11_FirstAdapterOrUnavailable ==
    /\ adapters = <<>> =>
         /\ scanning = {}
         /\ fd = "idle"
         /\ snapshot = <<>>
         /\ device = 0
         /\ connected = {}
         /\ IssuedOn = {}
         /\ pc \notin {"c_scan", "c_search", "c_connect"}
         /\ (/\ calls # <<>>
             /\ calls[Len(calls)].call = "adapters"
             /\ calls[Len(calls)].res.kind = "Ok") =>
              (pc = "idle" /\ result = AdapterUnavaliable)
    /\ result = AdapterUnavaliable =>
         /\ scanning = {}
         /\ fd = "idle"
         /\ connected = {}
         /\ IssuedOn = {}
         /\ ~handle.some
    /\ adapters # <<>> =>
         /\ adapter \in {0, adapters[1]}
         /\ scanning \subseteq {adapters[1]}
         /\ (pc \in {"c_scan", "c_search", "c_connect"} \/ fd # "idle") =>
              adapter = adapters[1]
         /\ \A i \in 1..Len(calls) :
              calls[i].call = "start_scan" => calls[i].on = adapters[1]

\* the platform listed no adapter and connect() returned AdapterUnavaliable
C11_Witness ==
    /\ adapters = <<>>
    /\ pc = "idle"
    /\ Len(calls) = 2
    /\ calls[2].call = "adapters"
    /\ calls[2].res.kind = "Ok"
    /\ calls[2].res.v = <<>>
    /\ result = AdapterUnavaliable

\* the last transport call connect() issued failed
LastCallFailed == calls # <<>> /\ calls[Len(calls)].res.kind = "Err"

\* C12: a transport failure inside connect() ends it with the BTLE variant
\* holding the transport's error: connect() never panics, and never answers a
\* failed transport call with a variant that has no cause
C12_TransportFailuresAreWrapped ==
    /\ result.kind # "Panic"
    /\ LastCallFailed =>
         /\ pc = "idle"
         /\ result = Err("BTLE", calls[Len(calls)].res.arg)

----------------------------------------------------------------------------
(* Properties of the handle after a failed call *)

\* a payload measurements() cannot decode: too short, or a status out of range
Malformed(payload) == Len(payload) < 13 \/ payload[9] \notin {1, 2, 3}

\* C13: when measurements() or info() has ended without a value, and whenever
\* a malformed payload was read, it ended with a DeviceError and a further
\* measurements() call can start on the same handle; and a measurements() call
\* whose read returns a well-formed 13-byte payload succeeds whatever the
\* earlier calls ended with
C13_HandleUsableAfterFailure ==
    /\ (op \in {"measurements", "info"} /\ Returned /\ result.kind # "Ok") =>
         /\ result.kind = "Err"
         /\ result.variant \in {"MissingAttribute", "InvalidAttribute", "IO", "BTLE"}
         /\ handle.some
         /\ ENABLED MeasurementsCall
    /\ (MeasurementRead /\ Malformed(Payload)) =>
         /\ handle.some
         /\ ENABLED MeasurementsCall
    /\ (MeasurementRead /\ Len(Payload) = 13 /\ ~Malformed(Payload)) =>
         (pc = "idle" /\ result = Decode(Payload) /\ result.kind = "Ok")

----------------------------------------------------------------------------
(* Properties of measurements(): the way back from the record to the bytes *)

RECURSIVE F32Exp(_, _)
\* the least s with n * 2^s >= 2^23, for a positive n below 2^24
F32Exp(n, s) == IF n * (2 ^ s) >= 2 ^ 23 THEN s ELSE F32Exp(n, s + 1)

\* a 16-bit value as an f32 (exact): mant / 2^exp with 2^23 <= mant < 2^24, or 0
F32FromU16(raw) ==
    IF raw = 0 THEN [mant |-> 0, exp |-> 0]
    ELSE [mant |-> raw * (2 ^ F32Exp(raw, 0)), exp |-> F32Exp(raw, 0)]

\* t * 20.0 in f32, correctly rounded: the product 20 * mant has up to 29
\* bits and is rounded to 24
F32Mul20(t) ==
    IF t.mant = 0 THEN [mant |-> 0, exp |-> 0]
    ELSE LET p == 20 * t.mant
             k == IF p < 2 ^ 28 THEN 4 ELSE 5
             m == RoundHalfEven(p, 2 ^ k)
         IN  IF m = 2 ^ 24 THEN [mant |-> 2 ^ 23, exp |-> t.exp - k - 1]
             ELSE [mant |-> m, exp |-> t.exp - k]

\* the discriminants of Status
StatusCode(s) == CHOOSE c \in {1, 2, 3} : <<"GREEN", "AMBER", "RED">>[c] = s

\* the integer fields of a record written back in the layout of the payload;
\* the two scaled fields hold no bytes
Encode(r) ==
    U16Bytes(r.co2) \o <<0, 0, 0, 0>> \o <<r.humidity, r.battery, StatusCode(r.status)>>
        \o U16Bytes(r.interval.secs) \o U16Bytes(r.since_last_update.secs)

ScaledBytes == {3, 4, 5, 6}

\* every raw value survives / 20.0 and * 20.0 in f32, and loses only its last
\* decimal digit in / 10 and * 10
ScalingRoundTrip ==
    \A raw \in 0..65535 :
        /\ F32Mul20(F32Div20(raw)) = F32FromU16(raw)
        /\ raw - 10 * (raw \div 10) \in 0..9

\* C14: for a payload whose first 13 bytes hold a status in {1,2,3}, writing
\* co2, humidity, battery, status, interval and since_last_update of the
\* decoded record back little-endian gives the bytes read; temperature * 20 (in
\* f32) is the raw 16-bit value, and pressure * 10 is at most the raw value and
\* less than 10 below it; the two scalings behave so for every 16-bit value
C14_ReencodingReproducesPayload ==
    /\ (MeasurementRead /\ Len(Payload) >= 13 /\ Byte(8) \in {1, 2, 3}) =>
         /\ result.kind = "Ok"
         /\ \A i \in (1..13) \ ScaledBytes : Encode(result.v)[i] = Payload[i]
         /\ F32Mul20(result.v.temperature) = F32FromU16(Byte(2) + 256 * Byte(3))
         /\ (Byte(4) + 256 * Byte(5)) - 10 * result.v.pressure \in 0..9
    /\ (MeasurementRead /\ Payload = ExamplePayload) =>
         ScalingRoundTrip

\* a reading with co2 65535, raw temperature 65535 and raw pressure 10139
\* (decoded to 1013) was decoded to a record
C14_Witness ==
    /\ MeasurementRead
    /\ Len(Payload) = 13
    /\ result.kind = "Ok"
    /\ result.v.co2 = 65535
    /\ Byte(2) + 256 * Byte(3) = 65535
    /\ result.v.pressure = 1013
    /\ result.v.status = "RED"

----------------------------------------------------------------------------
(* Properties of connect(): the race between find_device and the timer *)

\* connect() has issued a transport connect
ConnectIssued == \E i \in 1..Len(calls) : calls[i].call = "connect"

\* C15: the select! has one winner. Once find_device has returned a peripheral
\* connect() goes on to connect to it, and to nothing else, and never returns
\* SearchTimeout; once SearchTimeout is returned no peripheral was selected,
\* find_device is gone and takes no further step, and no connect is issued
C15_OneWinner ==
    /\ [](device # 0 =>
            /\ result # SearchTimeout
            /\ fd = "done"
            /\ pc \in {"c_connect", "idle"}
            /\ HasAranetName(adv[device]))
    /\ [](pc = "c_connect" => (device # 0 /\ result = NoResult /\ ~ConnectIssued))
    /\ [](ConnectIssued =>
            /\ device # 0
            /\ calls[Len(calls)].call = "connect"
            /\ calls[Len(calls)].on = device)
    /\ [][(device = 0 /\ device' # 0) =>
            /\ pc = "c_search"
            /\ pc' = "c_connect"
            /\ device' = snapshot[fi]
            /\ result' = NoResult]_vars
    /\ [][pc = "c_connect" =>
            /\ pc' = "idle"
            /\ ConnectIssued'
            /\ result' # SearchTimeout]_vars
    /\ [](result = SearchTimeout =>
            /\ device = 0
            /\ fd = "done"
            /\ ~ConnectIssued
            /\ connected = {})
    /\ [][result = SearchTimeout =>
            /\ result' = SearchTimeout
            /\ UNCHANGED <<fd, snapshot, fi, wake, device, calls, connected, handle>>]_vars

\* the timer won although a peripheral with a matching name was known by then:
\* SearchTimeout was returned at the tenth second in the middle of a poll
C15_Witness ==
    /\ result = SearchTimeout
    /\ MatchKnown(known, adv)
    /\ snapshot # <<>>
    /\ fi <= Len(snapshot)
    /\ now = 10

----------------------------------------------------------------------------
(* Properties of find_device: which peripheral is selected *)

\* find_device is in its for loop at an entry of the list
AtEntry == fd = "for" /\ fi <= Len(snapshot)

\* C16: find_device goes through the list of a poll in the list's order and
\* returns the first entry whose local name, as it reads it, starts with
\* "Aranet4": an entry is passed over only when its name does not match, a poll
\* ends without a selection only when every entry was passed over, and after
\* the selection no further entry and no further list is looked at. The
\* selected peripheral is settled by the list and the names alone
C16_FirstMatchInListOrder ==
    /\ [][(AtEntry /\ fi' # fi) =>
            /\ fi' = fi + 1
            /\ ~HasAranetName(adv[snapshot[fi]])
            /\ device' = 0
            /\ UNCHANGED snapshot]_vars
    /\ [][(AtEntry /\ HasAranetName(adv[snapshot[fi]]) /\ <<pc, fd, fi, device>>' # <<pc, fd, fi, device>>) =>
            \/ /\ device' = snapshot[fi]
               /\ pc' = "c_connect"
               /\ fd' = "done"
               /\ UNCHANGED <<fi, snapshot>>
            \/ result'.kind = "Panic"
            \/ result' = SearchTimeout]_vars
    /\ [][device' # device =>
            /\ AtEntry
            /\ device = 0
            /\ device' = snapshot[fi]
            /\ HasAranetName(adv[device'])]_vars
    /\ [][(fd = "for" /\ fd' = "sleep") =>
            /\ fi > Len(snapshot)
            /\ device' = 0]_vars
    /\ [][snapshot' # snapshot => (fd = "poll" /\ device = 0 /\ snapshot' = known)]_vars
    /\ [][device # 0 => UNCHANGED <<device, snapshot, fi, fd>>]_vars
    /\ [](device # 0 =>
            /\ fd = "done"
            /\ fi \in 1..Len(snapshot)
            /\ device = snapshot[fi]
            /\ HasAranetName(adv[device]))

\* the list of the poll was <<2, 1>>, both peripherals had a matching name,
\* and the first of the list was selected
C16_Witness ==
    /\ snapshot = <<2, 1>>
    /\ HasAranetName(adv[1])
    /\ HasAranetName(adv[2])
    /\ fi = 1
    /\ device = 2
    /\ pc = "idle"
    /\ result.kind = "Ok"

----------------------------------------------------------------------------
(* Properties of measurements(): the transport calls of one call *)

\* the names of the transport calls issued so far by the running call
CallNames == [i \in 1..Len(calls) |-> calls[i].call]

\* C17: the transport calls of one measurements() are is_connected, then a
\* connect only if that answered false, then one read, each at most once; the
\* first of them that fails is the last one and its error is what
\* measurements() returns (a failed reconnect is followed by no read, a read
\* that fails because the link dropped is followed by no reconnect and no
\* second read); after the return no transport call is issued for that call
C17_OneQueryOneConnectOneRead ==
    /\ [](op = "measurements" =>
            /\ CallNames \in { <<>>,
                               <<"is_connected">>,
                               <<"is_connected", "connect">>,
                               <<"is_connected", "read">>,
                               <<"is_connected", "connect", "read">> }
            /\ \A k \in 1..Len(calls) :
                 calls[k].res.kind = "Err" =>
                    /\ k = Len(calls)
                    /\ pc = "idle"
                    /\ result = calls[k].res
                    /\ result.variant = "BTLE"
            /\ (Returned /\ calls[Len(calls)].res.kind = "Ok") =>
                 CallNames[Len(calls)] = "read")
    /\ [][(op = "measurements" /\ Returned) => (calls' = calls \/ calls' = <<>>)]_vars
    /\ [][(op = "measurements" /\ Returned /\ calls' = <<>>) => pc' # "idle"]_vars

\* the link dropped after is_connected had answered true: the read failed and
\* its error was returned, with no reconnect and no second read
C17_Witness ==
    /\ op = "measurements"
    /\ pc = "idle"
    /\ Len(calls) = 2
    /\ calls[1].call = "is_connected"
    /\ calls[1].res.kind = "Ok"
    /\ calls[2].call = "read"
    /\ calls[2].res.kind = "Err"
    /\ calls[2].res.arg = "NotConnected"
    /\ result = Err("BTLE", "NotConnected")

----------------------------------------------------------------------------
(* Properties of info(): which error is returned *)

\* the order in which the fields are tested after the iteration
FieldOrder == <<"model_number", "serial_number", "firmware_revision",
                "hardware_revision", "software_revision", "manufacturer_name">>

\* call k of info() is a read that failed, or returned bytes that are not UTF-8
BadRead(k) ==
    /\ calls[k].call = "read"
    /\ \/ calls[k].res.kind = "Err"
       \/ calls[k].res.kind = "Ok" /\ calls[k].res.v \in InvalidStrings

\* the identity characteristics among the first n of the list
IdentityUpTo(n) == { i \in 1..n : chars[i].uuid \in {IdentityFieldUuid[f] : f \in IdentityFieldNames} }

\* C18: in info() a read of an identity characteristic that fails, or returns
\* a value that is not UTF-8, ends the call at once with that transport error
\* or with InvalidAttribute: it is the last read, the characteristics after it
\* are not read, and this is so even when a field's characteristic is absent.
\* MissingAttribute is returned only when the whole list was gone through and
\* every read succeeded, and it names the first absent field in the order
\* model_number, serial_number, firmware_revision, hardware_revision,
\* software_revision, manufacturer_name
C18_ErrorPrecedence ==
    op = "info" =>
        /\ \A k \in 1..Len(calls) :
             BadRead(k) =>
                /\ k = Len(calls)
                /\ pc = "idle"
                /\ result = IF calls[k].res.kind = "Err" THEN calls[k].res
                            ELSE Err("InvalidAttribute", "FromUtf8Error")
                /\ idx \in 1..Len(chars)
                /\ calls[k].char = Some(chars[idx])
        /\ (Returned /\ result.kind = "Err" /\ result.variant = "MissingAttribute") =>
             /\ AllReadsSucceeded
             /\ idx = Len(chars) + 1
             /\ Cardinality({k \in 1..Len(calls) : calls[k].call = "read"})
                  = Cardinality(IdentityUpTo(Len(chars)))
             /\ \E i \in 1..6 :
                  /\ result.arg = FieldOrder[i]
                  /\ ~Present(FieldOrder[i])
                  /\ \A j \in 1..(i - 1) : Present(FieldOrder[j])
        /\ (Returned /\ AllReadsSucceeded /\ \E f \in IdentityFieldNames : ~Present(f)) =>
             (result.kind = "Err" /\ result.variant = "MissingAttribute")

\* with two characteristics absent, the second read returned bytes that are
\* not UTF-8: info() returned InvalidAttribute and read nothing after it
C18_Witness ==
    /\ op = "info"
    /\ pc = "idle"
    /\ ~Present("serial_number")
    /\ ~Present("software_revision")
    /\ result = Err("InvalidAttribute", "FromUtf8Error")
    /\ idx = 2
    /\ Len(chars) = 5
    /\ Cardinality({k \in 1..Len(calls) : calls[k].call = "read"}) = 2

----------------------------------------------------------------------------
(* Properties of info(): the connectivity check *)

\* the precondition of info() has passed: is_connected answered true, or it
\* answered false and the connect that followed succeeded
LinkChecked ==
    /\ calls # <<>>
    /\ calls[1].call = "is_connected"
    /\ calls[1].res.kind = "Ok"
    /\ \/ calls[1].res.v
       \/ /\ Len(calls) >= 2
          /\ calls[2].call = "connect"
          /\ calls[2].res.kind = "Ok"

\* C19: info() starts with an is_connected query on the handle's peripheral,
\* issues one connect to it exactly when the answer was false, and lists and
\* reads characteristics only after the query answered true or that connect
\* succeeded; when the query or the connect fails, info() returns that
\* transport error and has read nothing
C19_InfoReconnectsFirst ==
    /\ [](op = "info" =>
            /\ pc \notin {"idle", "i_is_connected"} => calls # <<>>
            /\ calls # <<>> =>
                 /\ calls[1].call = "is_connected"
                 /\ calls[1].on = handle.v.device
            /\ \A k \in 1..Len(calls) :
                 /\ calls[k].call = "is_connected" => k = 1
                 /\ calls[k].call = "connect" =>
                      /\ k = 2
                      /\ calls[k].on = handle.v.device
                      /\ calls[1].res.kind = "Ok"
                      /\ ~calls[1].res.v
                 /\ calls[k].call = "read" =>
                      /\ LinkChecked
                      /\ k > (IF calls[1].res.v THEN 1 ELSE 2)
                      /\ calls[k].on = handle.v.device
            /\ (pc = "i_reconnect" \/ Len(calls) >= 2) =>
                 (calls[1].res.kind = "Ok" /\ (calls[1].res.v \/ pc = "i_reconnect"
                                               \/ calls[2].call = "connect"))
            /\ (pc \in {"i_chars", "i_loop"} \/ idx > 0 \/ chars # <<>>) => LinkChecked
            /\ (Returned /\ ~LinkChecked) =>
                 /\ Len(calls) \in 1..2
                 /\ calls[Len(calls)].res.kind = "Err"
                 /\ result = calls[Len(calls)].res
                 /\ result.variant = "BTLE"
                 /\ idx = 0
                 /\ chars = <<>>)
    /\ [][(op = "info" /\ pc = "i_reconnect" /\ pc' # pc) =>
            \/ pc' = "i_chars" /\ handle.v.device \in connected' /\ handle' = handle
            \/ pc' = "idle" /\ result'.kind = "Err" /\ connected' = connected]_vars

\* info() found the link down, connected again, read the six characteristics
\* and returned the Info record, with the link up
C19_Witness ==
    /\ op = "info"
    /\ pc = "idle"
    /\ result.kind = "Ok"
    /\ Len(calls) = 8
    /\ calls[1].res.kind = "Ok"
    /\ ~calls[1].res.v
    /\ calls[2].call = "connect"
    /\ calls[3].call = "read"
    /\ handle.v.device \in connected

----------------------------------------------------------------------------
(* Properties of connect(): what it leaves behind *)

CharacteristicNotFound ==
    Err("CharacteristicNotFound", "f0cd3001-95da-4f4b-9ac8-aa55d312af0c")

\* C20: connect() undoes nothing: it issues no disconnect and no stop_scan, a
\* link it brought up and a scan it started stay as they are, and when it
\* fails with CharacteristicNotFound the selected peripheral is connected and
\* the adapter is scanning although no handle was returned
C20_NoRollback ==
    /\ [](\A k \in 1..Len(calls) : calls[k].call \notin {"disconnect", "stop_scan"})
    /\ [][connected \subseteq connected' /\ scanning \subseteq scanning']_vars
    /\ []((Returned /\ result.kind = "Err" /\ result.variant = "CharacteristicNotFound") =>
            /\ result = CharacteristicNotFound
            /\ pc = "idle"
            /\ ~handle.some
            /\ device # 0
            /\ device \in connected
            /\ adapter # 0
            /\ scanning = {adapter}
            /\ calls[Len(calls)].call = "connect"
            /\ calls[Len(calls)].on = device
            /\ calls[Len(calls)].res.kind = "Ok")
    /\ []((Returned /\ SearchStarted) => scanning = {adapter})

\* connect() failed with CharacteristicNotFound for a peripheral that has no
\* characteristics at all: the peripheral is connected, the scan is running
C20_Witness ==
    /\ pc = "idle"
    /\ result = CharacteristicNotFound
    /\ chars = <<>>
    /\ connected = {device}
    /\ scanning = {adapter}
    /\ ~handle.some

====
